---- MODULE Spec2Model ----
(***************************************************************************)
(* LitSigner (packages/signers/src/lit-protocol/signer.ts): the adapter    *)
(* that turns Lit authentication material into session signatures and a   *)
(* PKPEthersWallet handle.  One LitSigner instance is modelled.  A step of *)
(* the model is the code that runs between two await points, so every     *)
(* state is one that a caller or another pending call can observe.        *)
(***************************************************************************)
EXTENDS Integers, Sequences, FiniteSets, TLC

\* Number of authenticate invocations made on the instance.
MaxCalls == 2

CallIds == 1..MaxCalls

\* The JavaScript value undefined, for fields and optional props.
Undefined == "undefined"

\* `signer` holds a reference to a handle; handles are named by the call
\* that constructed them, and NoHandle is the undefined reference.
NoHandle == 0

\* An absent authMethodType property.
NoType == 0

\* JavaScript truthiness of the values the fields can hold: undefined is
\* falsy, every object (an empty map included) and session map is truthy.
Truthy(v) == v # Undefined

(***************************************************************************)
(* Inputs.  A context is an object; `ref` names the object (its identity), *)
(* `keys` is Object.keys(context) in property order.                       *)
(***************************************************************************)
LitContexts ==
    { [ref |-> "ethWalletAuth", keys |-> <<"authMethodType", "accessToken">>,
       authMethodType |-> 1, accessToken |-> "authSigJson"],
      [ref |-> "googleAuth", keys |-> <<"authMethodType", "accessToken">>,
       authMethodType |-> 6, accessToken |-> "jwt"],
      [ref |-> "tokenFirstAuth", keys |-> <<"accessToken", "authMethodType">>,
       authMethodType |-> 6, accessToken |-> "jwt"],
      [ref |-> "sessionSigsMap", keys |-> <<"nodeA", "nodeB">>,
       authMethodType |-> NoType, accessToken |-> Undefined],
      [ref |-> "emptyMap", keys |-> <<>>,
       authMethodType |-> NoType, accessToken |-> Undefined] }

Deref(ref) == CHOOSE o \in LitContexts : o.ref = ref

\* Array.prototype.indexOf on Object.keys: 0-based position, -1 when absent.
IndexOf(keys, k) ==
    IF \E i \in 1..Len(keys) : keys[i] = k
    THEN (CHOOSE i \in 1..Len(keys) :
              keys[i] = k /\ \A j \in 1..(i - 1) : keys[j] # k) - 1
    ELSE -1

HasAccessToken(ref) == \E i \in 1..Len(Deref(ref).keys) : Deref(ref).keys[i] = "accessToken"

\* What the session-signature issuer can resolve getSessionSigs with.
NetworkSigs == {"sigsA", Undefined}

\* The errors the key-management client can reject connect and getSessionSigs with.
NetworkErrors == {"NetworkError", "TimeoutError"}

\* Date.now() readings, in milliseconds.
ClockReadings == {1000}

\* An optional timestamp string is a sequence of length at most one holding
\* the instant (ms) the string denotes.
ToISOString(ms) == <<ms>>

\* The props objects callers pass to authenticate.
AuthenticateProps ==
    { [context |-> "ethWalletAuth", sessionKeypair |-> "callerKeypair",
       chain |-> "polygon", expiration |-> ToISOString(5000)],
      [context |-> "googleAuth", sessionKeypair |-> Undefined,
       chain |-> Undefined, expiration |-> <<>>],
      [context |-> "googleAuth", sessionKeypair |-> "callerKeypair",
       chain |-> Undefined, expiration |-> <<>>],
      [context |-> "tokenFirstAuth", sessionKeypair |-> Undefined,
       chain |-> Undefined, expiration |-> <<>>],
      [context |-> "sessionSigsMap", sessionKeypair |-> Undefined,
       chain |-> Undefined, expiration |-> <<>>],
      [context |-> "emptyMap", sessionKeypair |-> Undefined,
       chain |-> Undefined, expiration |-> <<>>] }

NoProps == [context |-> Undefined, sessionKeypair |-> Undefined,
            chain |-> Undefined, expiration |-> <<>>]

\* Constructor parameters kept by the instance.
PkpPublicKey == "pkpPublicKey"
RpcUrl == "rpcUrl"

(***************************************************************************)
(* State.                                                                  *)
(***************************************************************************)
VARIABLES
    session,      \* this.session
    authContext,  \* this._authContext
    signer,       \* this.signer: NoHandle or the name of a handle
    handles,      \* the PKPEthersWallet objects constructed so far
    ready,        \* this.inner.ready
    calls,        \* the authenticate invocations and where each one is
    netCall,      \* the call on this.inner issued by the step just taken
    reply,        \* the awaited promise the step just taken was resumed by
    lastOp        \* the getAuthDetails / signing call that has just returned

vars == <<session, authContext, signer, handles, ready, calls, netCall, reply, lastOp>>

fields == <<session, authContext, signer>>

NoCall == [pc |-> "idle", props |-> NoProps, branch |-> "none", result |-> Undefined]
NoWallet == [built |-> FALSE, pkpPubKey |-> Undefined, rpc |-> Undefined,
             controllerSessionSigs |-> Undefined, init |-> "none"]
NoNetCall == [op |-> "none", call |-> 0, args |-> <<>>]
NoReply == [of |-> "none", call |-> 0, outcome |-> "none", value |-> Undefined]
NoOp == [op |-> "none", result |-> Undefined, delegated |-> FALSE,
         handleResult |-> Undefined]

Init ==
    /\ session = Undefined
    /\ authContext = Undefined
    /\ signer = NoHandle
    /\ handles = [c \in CallIds |-> NoWallet]
    /\ ready \in BOOLEAN
    /\ calls = [c \in CallIds |-> NoCall]
    /\ netCall = NoNetCall
    /\ reply = NoReply
    /\ lastOp = NoOp

(***************************************************************************)
(* Pure parts of _doAuthentication.                                        *)
(***************************************************************************)
\* Faulty variant: the comparison admits -1, the index of an absent key.
IsAuthMethod_AbsentKeyAdmitted(ref) == IndexOf(Deref(ref).keys, "accessToken") >= -1

\* Object.keys(props.context).indexOf("accessToken") > 0
IsAuthMethod(ref) == IndexOf(Deref(ref).keys, "accessToken") > 0

\* props.sessionKeypair || generateSessionKeyPair()
SessionKeypairOf(props) ==
    IF Truthy(props.sessionKeypair) THEN props.sessionKeypair ELSE "generatedKeypair"

\* props.chain || "ethereum"
ChainOf(props) == IF Truthy(props.chain) THEN props.chain ELSE "ethereum"

\* ALL_LIT_CHAINS[chain].chainId ?? 1
ChainIdOf(chain) == CASE chain = "ethereum" -> 1
                      [] chain = "polygon" -> 137
                      [] OTHER -> 1

\* JSON.parse of an access token: the serialized AuthSig parses to the
\* AuthSig object.
JSONParse(token) == CASE token = "authSigJson" -> "authSig"
                      [] OTHER -> "SyntaxError"

\* Faulty variant: the two closures are swapped between the method types.
SignSessionKeyRequest_Swapped(props) ==
    IF Deref(props.context).authMethodType # 1
    THEN [authMethods |-> <<props.context>>,
          authSig |-> JSONParse(Deref(props.context).accessToken),
          sessionKey |-> Undefined,
          pkpPublicKey |-> <<"0x", PkpPublicKey>>,
          chainId |-> ChainIdOf(ChainOf(props))]
    ELSE [authMethods |-> <<props.context>>,
          authSig |-> Undefined,
          sessionKey |-> SessionKeypairOf(props),
          pkpPublicKey |-> <<"0x", PkpPublicKey>>,
          chainId |-> ChainIdOf(ChainOf(props))]

\* The request the authNeededCallback closure passes to inner.signSessionKey.
\* statement, expiration and resources are the callback's own params, passed
\* through, and are left out.  An absent property is Undefined.
SignSessionKeyRequest(props) ==
    IF Deref(props.context).authMethodType = 1
    THEN [authMethods |-> <<props.context>>,
          authSig |-> JSONParse(Deref(props.context).accessToken),
          sessionKey |-> Undefined,
          pkpPublicKey |-> <<"0x", PkpPublicKey>>,
          chainId |-> ChainIdOf(ChainOf(props))]
    ELSE [authMethods |-> <<props.context>>,
          authSig |-> Undefined,
          sessionKey |-> SessionKeypairOf(props),
          pkpPublicKey |-> <<"0x", PkpPublicKey>>,
          chainId |-> ChainIdOf(ChainOf(props))]

\* props.expiration ?? new Date(Date.now() + 60 * 60 * 24 * 7).toISOString()
ExpirationOf(props, now) ==
    IF props.expiration # <<>> THEN props.expiration
    ELSE ToISOString(now + 60 * 60 * 24 * 7)

\* The request passed to inner.getSessionSigs.
GetSessionSigsRequest(props, now) ==
    [chain |-> ChainOf(props),
     expiration |-> ExpirationOf(props, now),
     resource |-> "*",
     ability |-> "PKPSigning"]

\* new PKPEthersWallet({pkpPubKey, rpc, controllerSessionSigs}) followed by
\* the call of init(), whose promise is pending.
NewWallet(sigs) ==
    [built |-> TRUE, pkpPubKey |-> PkpPublicKey, rpc |-> RpcUrl,
     controllerSessionSigs |-> sigs, init |-> "pending"]

\* Faulty variant: the two checks run in the other order.
CheckInternals_SignerFirst ==
    IF signer = NoHandle
    THEN "Signer is not initalized, did you call authenticate?"
    ELSE IF ~Truthy(authContext) THEN "Not Authenticated" ELSE "ok"

\* _checkInternals: the error it throws, or "ok".
CheckInternals ==
    IF ~Truthy(authContext) THEN "Not Authenticated"
    ELSE IF signer = NoHandle
         THEN "Signer is not initalized, did you call authenticate?"
         ELSE "ok"

\* Faulty variant: the entry check looks at the signer instead of the session.
NeedsAuthentication_ChecksSigner == signer = NoHandle

\* The entry check of authenticate: _doAuthentication runs when no session
\* is stored.
NeedsAuthentication == ~Truthy(session)

(***************************************************************************)
(* authenticate.  Calls are numbered in the order they are made.           *)
(***************************************************************************)
CanStart(c) ==
    /\ calls[c].pc = "idle"
    /\ \A d \in CallIds : d < c => calls[d].pc # "idle"

Settle(c, pc, result) ==
    calls' = [calls EXCEPT ![c].pc = pc, ![c].result = result]

Begin(c, p, branch, pc, result) ==
    calls' = [calls EXCEPT ![c] = [pc |-> pc, props |-> p, branch |-> branch,
                                   result |-> result]]

Issue(op, c, args) == netCall' = [op |-> op, call |-> c, args |-> args]

Resumed(of, c, outcome, value) ==
    reply' = [of |-> of, call |-> c, outcome |-> outcome, value |-> value]

\* A step that calls nothing on this.inner.
NoIssue == netCall' = NoNetCall

\* A step that no settled promise resumes: a call made by the caller.
Called == reply' = NoReply /\ lastOp' = NoOp

\* A session is stored: neither check fires and the stored session is returned.
AuthenticateShortCircuit(c, p) ==
    /\ CanStart(c)
    /\ ~NeedsAuthentication
    /\ Begin(c, p, "shortCircuit", "resolved", session)
    /\ NoIssue /\ Called
    /\ UNCHANGED <<fields, handles, ready>>

\* Auth-method branch, client not ready: runs up to `await this.inner.connect()`.
AuthenticateConnect(c, p) ==
    /\ CanStart(c)
    /\ NeedsAuthentication
    /\ IsAuthMethod(p.context)
    /\ ~ready
    /\ Issue("connect", c, <<>>)
    /\ Begin(c, p, "authMethod", "connect", Undefined)
    /\ Called
    /\ UNCHANGED <<fields, handles, ready>>

\* Faulty variant: getSessionSigs is requested without looking at inner.ready.
AuthenticateGetSessionSigs_NoReadyCheck(c, p, now) ==
    /\ CanStart(c)
    /\ NeedsAuthentication
    /\ IsAuthMethod(p.context)
    /\ Issue("getSessionSigs", c, <<GetSessionSigsRequest(p, now)>>)
    /\ Begin(c, p, "authMethod", "getSessionSigs", Undefined)
    /\ Called
    /\ UNCHANGED <<fields, handles, ready>>

\* Auth-method branch, client ready: runs up to the await of getSessionSigs.
AuthenticateGetSessionSigs(c, p, now) ==
    /\ CanStart(c)
    /\ NeedsAuthentication
    /\ IsAuthMethod(p.context)
    /\ ready
    /\ Issue("getSessionSigs", c, <<GetSessionSigsRequest(p, now)>>)
    /\ Begin(c, p, "authMethod", "getSessionSigs", Undefined)
    /\ Called
    /\ UNCHANGED <<fields, handles, ready>>

\* The stores and the wallet construction shared by both branches: the context
\* and the session are stored, then the constructor either returns (the wallet
\* is stored and init() is awaited) or throws (the call rejects).
StoreAndBuild(c, context, sigs, walletSigs) ==
    /\ authContext' = context
    /\ session' = sigs
    /\ \/ /\ signer' = c
          /\ handles' = [handles EXCEPT ![c] = NewWallet(walletSigs)]
       \/ /\ UNCHANGED <<signer, handles>>

\* Session-signatures branch: runs up to `await this.signer.init()`.
AuthenticateSessionSigs(c, p) ==
    /\ CanStart(c)
    /\ NeedsAuthentication
    /\ ~IsAuthMethod(p.context)
    /\ StoreAndBuild(c, p.context, p.context, p.context)
    /\ IF handles'[c].built
       THEN Begin(c, p, "sessionSigs", "init", Undefined)
       ELSE Begin(c, p, "sessionSigs", "rejected", "WalletError")
    /\ NoIssue /\ Called
    /\ UNCHANGED ready

Authenticate(c, p) ==
    \/ AuthenticateShortCircuit(c, p)
    \/ AuthenticateConnect(c, p)
    \/ \E now \in ClockReadings : AuthenticateGetSessionSigs(c, p, now)
    \/ AuthenticateSessionSigs(c, p)

\* inner.connect() resolves: the client is ready and getSessionSigs is requested.
ConnectResolve(c, now) ==
    /\ calls[c].pc = "connect"
    /\ ready' = TRUE
    /\ Issue("getSessionSigs", c, <<GetSessionSigsRequest(calls[c].props, now)>>)
    /\ Settle(c, "getSessionSigs", Undefined)
    /\ Resumed("connect", c, "resolved", Undefined)
    /\ lastOp' = NoOp
    /\ UNCHANGED <<fields, handles>>

\* inner.connect() rejects: the error leaves authenticate.
ConnectReject(c, err) ==
    /\ calls[c].pc = "connect"
    /\ Settle(c, "rejected", err)
    /\ Resumed("connect", c, "rejected", err)
    /\ NoIssue /\ lastOp' = NoOp
    /\ UNCHANGED <<fields, handles, ready>>

\* getSessionSigs invokes authNeededCallback, which calls inner.signSessionKey
\* unless JSON.parse throws on the access token first.
AuthNeededCallback(c) ==
    /\ calls[c].pc = "getSessionSigs"
    /\ IF SignSessionKeyRequest(calls[c].props).authSig = "SyntaxError"
       THEN NoIssue
       ELSE Issue("signSessionKey", c, <<SignSessionKeyRequest(calls[c].props)>>)
    /\ Called
    /\ UNCHANGED <<fields, handles, ready, calls>>

\* getSessionSigs resolves with sigs: runs up to `await this.signer.init()`.
GetSessionSigsResolve(c, sigs) ==
    /\ calls[c].pc = "getSessionSigs"
    /\ StoreAndBuild(c, calls[c].props.context, sigs, sigs)
    /\ IF handles'[c].built
       THEN Settle(c, "init", Undefined)
       ELSE Settle(c, "rejected", "WalletError")
    /\ Resumed("getSessionSigs", c, "resolved", sigs)
    /\ NoIssue /\ lastOp' = NoOp
    /\ UNCHANGED ready

\* Faulty variant: the catch handler replaces the error by the documented one.
GetSessionSigsReject_Rewraps(c, err) ==
    /\ calls[c].pc = "getSessionSigs"
    /\ Settle(c, "rejected", "Not Authenticated")
    /\ Resumed("getSessionSigs", c, "rejected", err)
    /\ NoIssue /\ lastOp' = NoOp
    /\ UNCHANGED <<fields, handles, ready>>

\* getSessionSigs rejects: the catch handler rethrows the same error.
GetSessionSigsReject(c, err) ==
    /\ calls[c].pc = "getSessionSigs"
    /\ Settle(c, "rejected", err)
    /\ Resumed("getSessionSigs", c, "rejected", err)
    /\ NoIssue /\ lastOp' = NoOp
    /\ UNCHANGED <<fields, handles, ready>>

\* init() resolves: _doAuthentication returns and authenticate runs its
\* second check on this.session.
InitResolve(c) ==
    /\ calls[c].pc = "init"
    /\ handles' = [handles EXCEPT ![c].init = "ok"]
    /\ IF ~Truthy(session)
       THEN Settle(c, "rejected", "Not Authenticated")
       ELSE Settle(c, "resolved", session)
    /\ Resumed("init", c, "resolved", Undefined)
    /\ NoIssue /\ lastOp' = NoOp
    /\ UNCHANGED <<fields, ready>>

\* init() rejects: the error leaves authenticate.
InitReject(c) ==
    /\ calls[c].pc = "init"
    /\ handles' = [handles EXCEPT ![c].init = "failed"]
    /\ Settle(c, "rejected", "WalletInitError")
    /\ Resumed("init", c, "rejected", "WalletInitError")
    /\ NoIssue /\ lastOp' = NoOp
    /\ UNCHANGED <<fields, ready>>

(***************************************************************************)
(* getAuthDetails and the signing facade.                                  *)
(***************************************************************************)
SigningOps == {"getAddress", "signMessage", "signTypedData"}

\* What the wallet handle answers: an address or a signature.
HandleResult(op) == IF op = "getAddress" THEN "0xAddress" ELSE "0xSignature"

GetAuthDetails ==
    /\ lastOp' = [op |-> "getAuthDetails",
                  result |-> IF CheckInternals = "ok" THEN authContext ELSE CheckInternals,
                  delegated |-> FALSE, handleResult |-> Undefined]
    /\ NoIssue /\ reply' = NoReply
    /\ UNCHANGED <<fields, handles, ready, calls>>

\* getAddress, signMessage, signTypedData: the guard, then the handle's answer.
SignerCall(op) ==
    /\ IF CheckInternals # "ok"
       THEN lastOp' = [op |-> op, result |-> CheckInternals, delegated |-> FALSE,
                       handleResult |-> Undefined]
       ELSE lastOp' = [op |-> op, result |-> HandleResult(op), delegated |-> TRUE,
                       handleResult |-> HandleResult(op)]
    /\ NoIssue /\ reply' = NoReply
    /\ UNCHANGED <<fields, handles, ready, calls>>

Next ==
    \/ \E c \in CallIds, p \in AuthenticateProps : Authenticate(c, p)
    \/ \E c \in CallIds, now \in ClockReadings : ConnectResolve(c, now)
    \/ \E c \in CallIds, err \in NetworkErrors : ConnectReject(c, err)
    \/ \E c \in CallIds : AuthNeededCallback(c)
    \/ \E c \in CallIds, sigs \in NetworkSigs : GetSessionSigsResolve(c, sigs)
    \/ \E c \in CallIds, err \in NetworkErrors : GetSessionSigsReject(c, err)
    \/ \E c \in CallIds : InitResolve(c)
    \/ \E c \in CallIds : InitReject(c)
    \/ GetAuthDetails
    \/ \E op \in SigningOps : SignerCall(op)

Spec == Init /\ [][Next]_vars

(***************************************************************************)
(* Properties.                                                             *)
(***************************************************************************)
NeverInvoked == \A c \in CallIds : calls[c].pc = "idle"
ContextOf(c) == calls[c].props.context

\* The step just taken is the invocation of authenticate number c.
Invoked(c) == calls[c].pc = "idle" /\ calls'[c].pc # "idle"

\* C1: a call of authenticate that runs alone on a fresh instance either
\* resolves with session and signer both set, or rejects with session,
\* auth context and signer all still unset.
C1_AuthenticateAllOrNothing ==
    \A c \in CallIds :
        (\A d \in CallIds \ {c} : calls[d].pc = "idle") =>
            /\ calls[c].pc = "resolved" => Truthy(session) /\ signer # NoHandle
            /\ calls[c].pc = "rejected" =>
                   ~Truthy(session) /\ ~Truthy(authContext) /\ signer = NoHandle

\* C2: a signing method delegates to the handle only when some authenticate
\* call has already resolved.
C2_SigningOnlyAfterAuthenticateResolved ==
    lastOp.delegated => \E c \in CallIds : calls[c].pc = "resolved"

\* C3: while authenticate has never been invoked, every getAuthDetails,
\* getAddress, signMessage and signTypedData call fails with
\* "Not Authenticated", does not reach the handle and changes no state.
C3_NeverAuthenticatedFails ==
    [][NeverInvoked /\ lastOp' # NoOp =>
          /\ lastOp'.result = "Not Authenticated"
          /\ ~lastOp'.delegated
          /\ netCall' = NoNetCall
          /\ UNCHANGED <<fields, handles, ready, calls>>]_vars

C3_Witness ==
    /\ NeverInvoked
    /\ lastOp.op = "signTypedData"
    /\ lastOp.result = "Not Authenticated"

\* C4: authenticate called while a session is stored resolves at once with
\* the stored session, calls nothing on the client or a handle, and leaves
\* session, auth context and signer as they were, whatever the input.
C4_ShortCircuit ==
    [][\A c \in CallIds :
          Invoked(c) /\ Truthy(session) =>
              /\ calls'[c].pc = "resolved"
              /\ calls'[c].result = session
              /\ netCall' = NoNetCall
              /\ UNCHANGED <<fields, handles, ready>>]_vars

C4_Witness ==
    \E c \in CallIds :
        /\ calls[c].branch = "shortCircuit"
        /\ ContextOf(c) = "ethWalletAuth"
        /\ calls[c].pc = "resolved"
        /\ calls[c].result = session
        /\ session = "sessionSigsMap"

C6_HandleIffSession == (signer # NoHandle) <=> Truthy(session)

\* C7: a signing method delegates only if the session field and the handle
\* are both set, and then returns the handle's result.
C7_GuardRequiresSessionAndHandle ==
    lastOp.op \in SigningOps /\ lastOp.delegated =>
        /\ Truthy(session)
        /\ signer # NoHandle
        /\ lastOp.result = lastOp.handleResult

\* C8: an input whose context has an accessToken key, at any position,
\* takes the auth-method branch whenever _doAuthentication runs.
C8_AccessTokenSelectsAuthMethodBranch ==
    \A c \in CallIds :
        /\ calls[c].pc # "idle"
        /\ calls[c].branch # "shortCircuit"
        /\ HasAccessToken(ContextOf(c))
        => calls[c].branch = "authMethod"

\* C9: no call on the key-management client is ever issued by an
\* authenticate call whose context has no accessToken key; when such a call
\* runs _doAuthentication it stores the input as session and as auth context,
\* and the wallet it constructs (unless the constructor throws, which rejects
\* the call) is built from that input.
C9_SessionSigsInputUsedDirectly ==
    [][/\ netCall'.op # "none" => HasAccessToken(calls'[netCall'.call].props.context)
       /\ \A c \in CallIds :
              Invoked(c) /\ ~Truthy(session) /\ ~HasAccessToken(calls'[c].props.context) =>
                  /\ session' = calls'[c].props.context
                  /\ authContext' = calls'[c].props.context
                  /\ \/ /\ signer' = c
                        /\ handles'[c].built
                        /\ handles'[c].controllerSessionSigs = calls'[c].props.context
                        /\ calls'[c].pc = "init"
                     \/ /\ ~handles'[c].built
                        /\ calls'[c].pc = "rejected"
                        /\ calls'[c].result = "WalletError"]_vars

C9_Witness ==
    \E c \in CallIds :
        /\ ContextOf(c) = "sessionSigsMap"
        /\ calls[c].pc = "init"
        /\ session = "sessionSigsMap"
        /\ signer = c
        /\ handles[c].controllerSessionSigs = "sessionSigsMap"

\* C10: a signSessionKey request carries the AuthSig parsed from the access
\* token and no session key when the input's authMethodType is 1, and the
\* session key pair and no AuthSig for any other authMethodType.
C10_SignSessionKeyRequestShape ==
    netCall.op = "signSessionKey" =>
        LET request == netCall.args[1]
            props == calls[netCall.call].props
            context == Deref(props.context)
        IN  /\ calls[netCall.call].branch = "authMethod"
            /\ IF context.authMethodType = 1
               THEN /\ request.authSig = JSONParse(context.accessToken)
                    /\ Truthy(request.authSig)
                    /\ request.sessionKey = Undefined
               ELSE /\ request.sessionKey = SessionKeypairOf(props)
                    /\ Truthy(request.sessionKey)
                    /\ request.authSig = Undefined

C10_Witness ==
    /\ netCall.op = "signSessionKey"
    /\ ContextOf(netCall.call) = "ethWalletAuth"
    /\ netCall.args[1].authSig = "authSig"

\* Call c is the only authenticate call made so far.
SoleCall(c) == \A d \in CallIds \ {c} : calls[d].pc = "idle"

\* C11: once the only authenticate call made has resolved, getAuthDetails
\* returns the value that call resolved with, the stored session.
C11_AuthDetailsIsSession ==
    \A c \in CallIds :
        SoleCall(c) /\ calls[c].pc = "resolved" /\ lastOp.op = "getAuthDetails" =>
            /\ lastOp.result = calls[c].result
            /\ lastOp.result = session

\* An input or a resolved value that holds no credentials: undefined or a
\* map without entries.
NoCredentials(v) == ~Truthy(v) \/ (v \in {o.ref : o \in LitContexts} /\ Deref(v).keys = <<>>)

\* The credentials call c acquired, once its acquisition step has completed
\* and its wallet was constructed.
Acquired(c) == handles[c].controllerSessionSigs

\* C12: a call whose acquisition yielded no credentials, and whose wallet
\* construction and init did not fail, rejects with "Not Authenticated"; no
\* call resolves with an empty value.
C12_EmptyCredentialsRejected ==
    \A c \in CallIds :
        /\ calls[c].pc = "resolved" => ~NoCredentials(calls[c].result)
        /\ handles[c].init = "ok" /\ NoCredentials(Acquired(c)) =>
               calls[c].pc = "rejected" /\ calls[c].result = "Not Authenticated"

\* C13: the expiration of a getSessionSigs request is the one supplied, or,
\* when none is supplied, the clock reading plus 7 days in milliseconds.
C13_DefaultExpirationOneWeek ==
    netCall.op = "getSessionSigs" =>
        LET props == calls[netCall.call].props
        IN  IF props.expiration # <<>>
            THEN netCall.args[1].expiration = props.expiration
            ELSE \E now \in ClockReadings :
                     netCall.args[1].expiration
                         = ToISOString(now + 7 * 24 * 60 * 60 * 1000)

\* C14: once the session field holds credentials, it holds credentials after
\* every step.
C14_SessionStable == [][Truthy(session) => Truthy(session')]_vars

\* Call c has run the stores of _doAuthentication: its constructor returned
\* or threw.
Stored(c) ==
    /\ calls[c].branch \in {"authMethod", "sessionSigs"}
    /\ handles[c].built \/ calls[c].result = "WalletError"

\* C15: over all authenticate calls, at most one has stored its input as
\* auth context.
C15_InputStoredAtMostOnce == Cardinality({c \in CallIds : Stored(c)}) <= 1

\* C16: at the step where an authenticate call resolves, the stored handle
\* has completed init.
C16_ResolvedImpliesHandleInitialized ==
    [][\A c \in CallIds :
          calls[c].pc # "resolved" /\ calls'[c].pc = "resolved" =>
              signer' # NoHandle /\ handles'[signer'].init = "ok"]_vars

\* C17: whenever session and handle are both set, the handle was constructed
\* from the credentials in the session field.
C17_HandleMatchesSession ==
    Truthy(session) /\ signer # NoHandle =>
        handles[signer].controllerSessionSigs = session

\* C18: connect is issued only while the client is not ready, and
\* getSessionSigs only by a call that has just seen the client ready or has
\* just been resumed by its own connect resolving.
C18_ConnectOnlyWhenNotReady ==
    /\ netCall.op = "connect" => ~ready
    /\ netCall.op = "getSessionSigs" =>
           \/ reply = NoReply /\ ready
           \/ /\ reply.of = "connect"
              /\ reply.call = netCall.call
              /\ reply.outcome = "resolved"

C18_Witness ==
    /\ netCall.op = "getSessionSigs"
    /\ reply.of = "connect"
    /\ reply.call = netCall.call
    /\ reply.outcome = "resolved"
    /\ \E c \in CallIds : c # netCall.call /\ calls[c].pc = "rejected"
                          /\ calls[c].result \in NetworkErrors

====
